---- MODULE Spec2Model ----
(***************************************************************************)
(* ShopFlow: the checkout validation endpoint (POST /api/checkout/validate),*)
(* the checkout flow of CheckoutClient.handleSubmit, and the tables and    *)
(* row-level-security policies they run against.                           *)
(*                                                                         *)
(* Money is kept in integer cents: products.price is numeric(10,2).        *)
(* A quantity sent by a client is a JSON value; it is kept as its JS type  *)
(* and, for numbers, its value in halves (h = 2 * value), so that 1.5 is   *)
(* representable and Number.isInteger is a real test.                      *)
(***************************************************************************)
EXTENDS Integers, Sequences, FiniteSets, TLC

\* ---------------------------------------------------------------- bounds
MaxItems  == 2      \* longest item list of a raw validation request
MaxOrders == 2      \* order rows the backend is asked to store
MaxEdits  == 1      \* admin product updates in one behaviour
MaxCart   == 2      \* entries of a cart at checkout
MaxSubmits == 1     \* times a shopper presses the submit button
MaxLines  == 1      \* line items written by direct calls
MaxBelow  == 1      \* how far below zero a cart quantity is followed

\* ------------------------------------------------------------ identities
NoUser     == "anon"
Identities == {"u1", "u2", "adm"}
Shoppers   == {"u1", "u2"}
Raw        == "raw"                 \* request slot of a hand-made request
Slots      == Shoppers \cup {Raw}   \* one validation request per caller

\* -------------------------------------------------------------- products
ProductIds == {"p1", "p2"}
GhostId    == "ghost"               \* an id no product row carries
Prices     == {1999, 250}
Stocks     == {1}                   \* stock values an admin writes
PostStocks == {1, 2}                \* stock values a raw request may meet
ClientTotals == {1}                 \* totals a caller may write in a row

NameOf(pid) == <<"name", pid>>

InitProducts ==
  [p \in ProductIds |-> IF p = "p1" THEN [price |-> 1999, stock |-> 1]
                                    ELSE [price |-> 250,  stock |-> 1]]

\* ------------------------------------------------------------- JS values
Num(n)   == [t |-> "number", h |-> 2 * n]
Half(k)  == [t |-> "number", h |-> k]
Str(n)   == [t |-> "string", h |-> 2 * n]

IsInteger(q) == q.t = "number" /\ q.h % 2 = 0

NullItem == [null |-> TRUE]
Item(pid, q) == [product_id |-> pid, quantity |-> q]

\* floor(x + 0.5) of the rational num/den, as Math.round computes it
MathRound(num, den) == (2 * num + den) \div (2 * den)

\* Math.round(serverTotal * 100) / 100, serverTotal given in cents
Round2(cents) == MathRound(cents * 100, 100)

\* ----------------------------------------------------------------- state
VARIABLES
  products,     \* public.products: id -> [price, stock]
  profiles,     \* public.profiles: identity -> role
  orders,       \* public.orders: set of rows
  order_items,  \* public.order_items: set of rows
  runs,         \* slot -> the validation request in progress for that caller
  clients,      \* shopper -> state of the CheckoutClient component
  issued,       \* pairs <<identity, serverTotal>> the endpoint answered with
  edits,        \* number of admin product updates so far
  last,         \* the last call a caller sent to the backend, and its outcome
  provider,     \* the CartProvider of u1's browser: storage and effects
  inserted      \* <<identity, order id>>: who inserted line items under which order

vars == <<products, profiles, orders, order_items, runs, clients, issued, edits,
          last, provider, inserted>>

\* no call was sent yet
NoCall == [op |-> "none"]

\* a browser in which the CartProvider is not being mounted
NoProvider == [phase |-> "off"]

\* ------------------------------------------------- responses of the POST
NoResp == [status |-> 0]

Resp401 == [status |-> 401, body |-> [error |-> [msg |-> "Authentication required."]]]
RespEmpty == [status |-> 400, body |-> [error |-> [msg |-> "Cart is empty."]]]
RespInvalid == [status |-> 400, body |-> [error |-> [msg |-> "Invalid item in cart."]]]
Resp404Unnamed(pid) ==
  [status |-> 404, body |-> [error |-> [msg |-> "Product not found: ", id |-> ""]]]
Resp404(pid) ==
  [status |-> 404, body |-> [error |-> [msg |-> "Product not found: ", id |-> pid]]]
Resp409(name, available, requested) ==
  [status |-> 409,
   body |-> [error |-> [msg |-> "Insufficient stock for", name |-> name,
                        available |-> available, requested |-> requested]]]
Resp200(total) == [status |-> 200, body |-> [valid |-> TRUE, serverTotal |-> total]]
Resp500 == [status |-> 500, body |-> [error |-> [msg |-> "Internal server error."]]]

\* ------------------------------------------------ bodies of the requests
Unparseable == [kind |-> "unparseable"]
NoItems     == [kind |-> "json", array |-> FALSE, items |-> <<>>]
Items(s)    == [kind |-> "json", array |-> TRUE, items |-> s]

\* a request as the handler sees it when it is entered
NewRun(user, body) ==
  [user |-> user, body |-> body, pc |-> "auth", idx |-> 0, serverTotal |-> 0,
   inspected |-> 0, lookups |-> <<>>, faultAt |-> 0, resp |-> NoResp]

NoRun == [NewRun(NoUser, Unparseable) EXCEPT !.pc = "none"]

Finish(v, resp) == [v EXCEPT !.pc = "done", !.resp = resp]

\* supabase.from('products').select(...).eq('id', pid).single(): the row, or
\* data = null when no row matches or when the backend call fails
Single(table, pid, answered) ==
  IF answered /\ pid \in DOMAIN table
  THEN [found |-> TRUE, id |-> pid, name |-> NameOf(pid),
        price |-> table[pid].price, stock |-> table[pid].stock]
  ELSE [found |-> FALSE]

\* the sanity check without the Number.isInteger test
MalformedNoIntegerTest(item) ==
  \/ item.product_id = ""
  \/ item.quantity.t # "number"
  \/ item.quantity.h < 2

\* the sanity check of one entry of body.items
Malformed(item) ==
  \/ item.product_id = ""
  \/ item.quantity.t # "number"
  \/ ~IsInteger(item.quantity)
  \/ item.quantity.h < 2

\* the stock check letting one unit too many through
StockShortOffByOne(product, item) == 2 * (product.stock + 1) < item.quantity.h

\* the stock check of one entry against the row just read
StockShort(product, item) == 2 * product.stock < item.quantity.h

\* the line amount taken from a price the client sent along
LineAmountClientPrice(product, item) ==
  (IF "price" \in DOMAIN item THEN item.price ELSE product.price)
    * (item.quantity.h \div 2)

\* Number(product.price) * item.quantity
LineAmount(product, item) == product.price * (item.quantity.h \div 2)

\* the handler without its auth check
AuthCheckMissing(v) == [v EXCEPT !.pc = "parse"]

\* auth check
AuthCheck(v) ==
  IF v.user = NoUser THEN Finish(v, Resp401) ELSE [v EXCEPT !.pc = "parse"]

\* request.json() and the shape check of body.items
ParseBody(v) ==
  IF v.body.kind = "unparseable" THEN Finish(v, Resp500)
  ELSE IF ~v.body.array \/ Len(v.body.items) = 0 THEN Finish(v, RespEmpty)
  ELSE [v EXCEPT !.pc = "loop", !.idx = 1]

\* the loop iteration with the product fetched before the entry is checked
ItemStepLookupFirst(v, table, answered) ==
  LET item == v.body.items[v.idx]
      seen == [v EXCEPT !.inspected = @ + 1]
  IN
  IF item = NullItem THEN Finish(seen, Resp500)
  ELSE
    LET product == Single(table, item.product_id, answered)
        asked   == [seen EXCEPT !.lookups = Append(@, item.product_id),
                                !.faultAt = IF answered THEN @ ELSE v.idx]
    IN
    IF Malformed(item) THEN Finish(asked, RespInvalid)
    ELSE IF ~product.found THEN Finish(asked, Resp404(item.product_id))
    ELSE IF StockShort(product, item)
      THEN Finish(asked, Resp409(product.name, product.stock, item.quantity))
    ELSE
      LET total == asked.serverTotal + LineAmount(product, item)
      IN IF v.idx = Len(v.body.items)
         THEN Finish([asked EXCEPT !.serverTotal = Round2(total)],
                     Resp200(Round2(total)))
         ELSE [asked EXCEPT !.serverTotal = total, !.idx = v.idx + 1]

\* one iteration of the per-item loop, and the tail of the handler after the
\* last iteration
ItemStep(v, table, answered) ==
  LET item == v.body.items[v.idx]
      seen == [v EXCEPT !.inspected = @ + 1]
  IN
  IF item = NullItem THEN Finish(seen, Resp500)
  ELSE IF Malformed(item) THEN Finish(seen, RespInvalid)
  ELSE
    LET product == Single(table, item.product_id, answered)
        asked   == [seen EXCEPT !.lookups = Append(@, item.product_id),
                                !.faultAt = IF answered THEN @ ELSE v.idx]
    IN
    IF ~product.found THEN Finish(asked, Resp404(item.product_id))
    ELSE IF StockShort(product, item)
      THEN Finish(asked, Resp409(product.name, product.stock, item.quantity))
    ELSE
      LET total == asked.serverTotal + LineAmount(product, item)
      IN IF v.idx = Len(v.body.items)
         THEN Finish([asked EXCEPT !.serverTotal = Round2(total)],
                     Resp200(Round2(total)))
         ELSE [asked EXCEPT !.serverTotal = total, !.idx = v.idx + 1]

\* --------------------------------------------------- the endpoint, by step
PostAuth(s) ==
  /\ runs[s].pc = "auth"
  /\ runs' = [runs EXCEPT ![s] = AuthCheck(@)]
  /\ UNCHANGED <<products, profiles, orders, order_items, clients, issued, edits, last, provider, inserted>>

PostParse(s) ==
  /\ runs[s].pc = "parse"
  /\ runs' = [runs EXCEPT ![s] = ParseBody(@)]
  /\ UNCHANGED <<products, profiles, orders, order_items, clients, issued, edits, last, provider, inserted>>

PostItem(s) ==
  /\ runs[s].pc = "loop"
  /\ \E answered \in BOOLEAN :
       LET next == ItemStep(runs[s], products, answered) IN
       /\ runs' = [runs EXCEPT ![s] = next]
       /\ issued' = IF next.resp.status = 200
                    THEN issued \cup {<<next.user, next.resp.body.serverTotal>>}
                    ELSE issued
  /\ UNCHANGED <<products, profiles, orders, order_items, clients, edits, last, provider, inserted>>

\* ------------------------------------------------- raw requests (SpecPost)
Quantities ==
  {Num(1), Num(2), Num(3), Num(0), Num(-1), Half(3), Str(1)}

RawItems ==
  {Item(p, Num(n)) : p \in ProductIds \cup {GhostId}, n \in {1, 2, 3}}
    \cup {Item("", Num(1))}
    \cup {[product_id |-> p, quantity |-> Num(1), price |-> 1] : p \in ProductIds}
    \cup {Item("p1", q) : q \in Quantities}
    \cup {NullItem}

RECURSIVE SeqsUpTo(_, _)
SeqsUpTo(S, n) ==
  IF n = 0 THEN {<<>>}
  ELSE LET shorter == SeqsUpTo(S, n - 1)
       IN shorter \cup {Append(s, x) : s \in {t \in shorter : Len(t) = n - 1}, x \in S}

RawBodies ==
  {Unparseable, NoItems} \cup {Items(s) : s \in SeqsUpTo(RawItems, MaxItems)}

IdleClient ==
  [session |-> NoUser, cart |-> <<>>, pc |-> "idle", items |-> <<>>,
   res |-> NoResp, user |-> NoUser, order |-> 0, error |-> "none",
   loading |-> FALSE, submits |-> 0]

InitPost ==
  /\ products \in [ProductIds -> [price : Prices, stock : PostStocks]]
  /\ profiles = [i \in Identities |-> IF i = "adm" THEN "admin" ELSE "user"]
  /\ orders = {}
  /\ order_items = {}
  /\ \E u \in {NoUser, "u1"}, b \in RawBodies :
       runs = [s \in Slots |-> IF s = Raw THEN NewRun(u, b) ELSE NoRun]
  /\ clients = [c \in Shoppers |-> IdleClient]
  /\ issued = {}
  /\ edits = 0
  /\ last = NoCall
  /\ provider = NoProvider
  /\ inserted = {}

NextPost == PostAuth(Raw) \/ PostParse(Raw) \/ PostItem(Raw)

SpecPost == InitPost /\ [][NextPost]_vars

\* ================================================= tables and their rules
\* auth.uid() of a call made with the session of a browser
Uid(session) == session

\* the admin test answering yes for every signed-in caller
IsAdminAnySession(uid) == uid \in DOMAIN profiles

\* EXISTS (SELECT 1 FROM profiles WHERE id = auth.uid() AND role = 'admin')
IsAdmin(uid) == uid \in DOMAIN profiles /\ profiles[uid] = "admin"

\* "orders: owner insert" and the CHECK constraints of public.orders
OrdersInsertAllowed(uid, row) ==
  /\ uid # NoUser
  /\ row.user_id = uid
  /\ row.total_amount >= 0
  /\ row.status \in {"pending", "confirmed", "shipped", "delivered"}

\* the insert rule testing only that the parent order exists
OrderItemsInsertAllowedAnyOrder(uid, rows) ==
  /\ uid # NoUser
  /\ \A r \in rows :
       /\ \E o \in orders : o.id = r.order_id
       /\ r.product_id \in DOMAIN products
       /\ r.quantity > 0
       /\ r.price >= 0

\* "order_items: owner insert", the CHECK constraints and the foreign keys of
\* public.order_items, for the rows of one insert statement
OrderItemsInsertAllowed(uid, rows) ==
  /\ uid # NoUser
  /\ \A r \in rows :
       /\ \E o \in orders : o.id = r.order_id /\ o.user_id = uid
       /\ r.product_id \in DOMAIN products
       /\ r.quantity > 0
       /\ r.price >= 0

\* "products: admin update" and the CHECK constraints of public.products
ProductsUpdateAllowed(uid, row) ==
  /\ IsAdmin(uid)
  /\ row.price >= 0
  /\ row.stock >= 0

\* uuid_generate_v4(): an id no order row carries yet
NewOrderId == Cardinality(orders) + 1

\* ======================================================= the checkout flow
\* the body CheckoutClient sends: items.map(i => ({product_id, quantity}))
Payload(items) ==
  [i \in 1 .. Len(items) |-> Item(items[i].product.id, Num(items[i].quantity))]

\* the rows of the insert built from the first cart entry only
ItemRowsFirstOnly(order_id, items) ==
  {[order_id |-> order_id, line |-> i, product_id |-> items[i].product.id,
    quantity |-> items[i].quantity, price |-> items[i].product.price]
     : i \in 1 .. 1}

\* the rows of the order_items insert: items.map(i => ({order_id, ...}))
ItemRows(order_id, items) ==
  {[order_id |-> order_id, line |-> i, product_id |-> items[i].product.id,
    quantity |-> items[i].quantity, price |-> items[i].product.price]
     : i \in 1 .. Len(items)}

\* res.ok
Ok(res) == res.status >= 200 /\ res.status <= 299

\* a failure return that also empties the cart
FailClearingCart(cl, msg) ==
  [cl EXCEPT !.error = msg, !.loading = FALSE, !.pc = "idle", !.items = <<>>,
             !.res = NoResp, !.user = NoUser, !.order = 0, !.cart = <<>>]

\* setError(msg); setLoading(false); return (the locals of the call are gone)
Fail(cl, msg) ==
  [cl EXCEPT !.error = msg, !.loading = FALSE, !.pc = "idle", !.items = <<>>,
             !.res = NoResp, !.user = NoUser, !.order = 0]

\* handleSubmit up to the fetch of the validation endpoint
Submit(c) ==
  /\ clients[c].pc = "idle"
  /\ clients[c].cart # <<>>
  /\ clients[c].submits < MaxSubmits
  /\ \E filled \in BOOLEAN :
       IF ~filled
       THEN /\ clients' = [clients EXCEPT
                 ![c] = Fail([@ EXCEPT !.submits = @ + 1],
                             "Please fill in all address fields.")]
            /\ UNCHANGED runs
       ELSE /\ clients' = [clients EXCEPT
                 ![c] = [@ EXCEPT !.loading = TRUE, !.error = "none",
                                  !.pc = "fetch", !.items = clients[c].cart,
                                  !.submits = @ + 1]]
            /\ runs' = [runs EXCEPT
                 ![c] = NewRun(Uid(clients[c].session),
                               Items(Payload(clients[c].cart)))]
  /\ UNCHANGED <<products, profiles, orders, order_items, issued, edits, last, provider, inserted>>

\* the fetch resolves: res.json(), then the res.ok test
FetchReturn(c) ==
  /\ clients[c].pc = "fetch"
  /\ runs[c].pc = "done"
  /\ LET res == runs[c].resp IN
     clients' = [clients EXCEPT
       ![c] = IF ~Ok(res)
              THEN Fail([@ EXCEPT !.res = res],
                        IF "error" \in DOMAIN res.body
                        THEN res.body.error.msg ELSE "Validation failed.")
              ELSE [@ EXCEPT !.res = res, !.pc = "getUser"]]
  /\ runs' = [runs EXCEPT ![c] = NoRun]
  /\ UNCHANGED <<products, profiles, orders, order_items, issued, edits, last, provider, inserted>>

\* the fetch rejects (the request never reaches the server): the catch block
FetchThrows(c) ==
  /\ clients[c].pc = "fetch"
  /\ runs[c].pc = "auth"
  /\ clients' = [clients EXCEPT
       ![c] = Fail(@, "An unexpected error occurred. Please try again.")]
  /\ runs' = [runs EXCEPT ![c] = NoRun]
  /\ UNCHANGED <<products, profiles, orders, order_items, issued, edits, last, provider, inserted>>

\* supabase.auth.getUser() in the browser, and the !user test
GetUser(c) ==
  /\ clients[c].pc = "getUser"
  /\ clients' = [clients EXCEPT
       ![c] = IF clients[c].session = NoUser
              THEN Fail(@, "You must be signed in to place an order.")
              ELSE [@ EXCEPT !.user = clients[c].session, !.pc = "insertOrder"]]
  /\ UNCHANGED <<products, profiles, orders, order_items, runs, issued, edits, last, provider, inserted>>

\* the order row is held back until the line items are written
InsertOrderDeferred(c) ==
  /\ clients[c].pc = "insertOrder"
  /\ Cardinality(orders) < MaxOrders
  /\ orders' = orders
  /\ clients' = [clients EXCEPT
       ![c] = [@ EXCEPT !.order = NewOrderId, !.pc = "insertItems"]]
  /\ UNCHANGED <<products, profiles, order_items, runs, issued, edits, last, provider, inserted>>

\* insert into orders ... .select().single(), and the orderErr test
InsertOrder(c) ==
  /\ clients[c].pc = "insertOrder"
  /\ Cardinality(orders) < MaxOrders
  /\ \E answered \in BOOLEAN :
       LET row == [id |-> NewOrderId, user_id |-> clients[c].user,
                   total_amount |-> clients[c].res.body.serverTotal,
                   status |-> "pending"]
       IN IF answered /\ OrdersInsertAllowed(Uid(clients[c].session), row)
          THEN /\ orders' = orders \cup {row}
               /\ clients' = [clients EXCEPT
                    ![c] = [@ EXCEPT !.order = row.id, !.pc = "insertItems"]]
          ELSE /\ orders' = orders
               /\ clients' = [clients EXCEPT
                    ![c] = Fail(@, "Failed to create order. Please try again.")]
  /\ UNCHANGED <<products, profiles, order_items, runs, issued, edits, last, provider, inserted>>

\* the flow's last step with a conditional stock decrement at commit time
InsertItemsDecrementing(c) ==
  /\ clients[c].pc = "insertItems"
  /\ \E answered \in BOOLEAN :
       LET rows == ItemRows(clients[c].order, clients[c].items)
           left(p) == products[p].stock
                        - (IF \E r \in rows : r.product_id = p
                           THEN (CHOOSE r \in rows : r.product_id = p).quantity
                           ELSE 0)
       IN IF /\ answered
             /\ OrderItemsInsertAllowed(Uid(clients[c].session), rows)
             /\ \A p \in DOMAIN products : left(p) >= 0
          THEN /\ order_items' = order_items \cup rows
               /\ inserted' = inserted \cup {<<clients[c].session, clients[c].order>>}
               /\ products' = [p \in DOMAIN products |->
                                 [products[p] EXCEPT !.stock = left(p)]]
               /\ clients' = [clients EXCEPT
                    ![c] = [@ EXCEPT !.cart = <<>>, !.loading = FALSE,
                                     !.pc = "success", !.res = NoResp,
                                     !.user = NoUser]]
          ELSE /\ order_items' = order_items
               /\ inserted' = inserted
               /\ products' = products
               /\ clients' = [clients EXCEPT
                    ![c] = Fail(@, "Failed to save order items.")]
  /\ UNCHANGED <<profiles, orders, runs, issued, edits, last, provider>>

\* insert into order_items, the itemsErr test, clearCart() and router.push
InsertItems(c) ==
  /\ clients[c].pc = "insertItems"
  /\ \E answered \in BOOLEAN :
       LET rows == ItemRows(clients[c].order, clients[c].items)
       IN IF answered /\ OrderItemsInsertAllowed(Uid(clients[c].session), rows)
          THEN /\ order_items' = order_items \cup rows
               /\ inserted' = inserted \cup {<<clients[c].session, clients[c].order>>}
               /\ clients' = [clients EXCEPT
                    ![c] = [@ EXCEPT !.cart = <<>>, !.loading = FALSE,
                                     !.pc = "success", !.res = NoResp,
                                     !.user = NoUser]]
          ELSE /\ order_items' = order_items
               /\ inserted' = inserted
               /\ clients' = [clients EXCEPT
                    ![c] = Fail(@, "Failed to save order items.")]
  /\ UNCHANGED <<products, profiles, orders, runs, issued, edits, last, provider>>

\* useAuth().signOut() in the browser of c
SignOut(c) ==
  /\ clients[c].session # NoUser
  /\ clients' = [clients EXCEPT ![c] = [@ EXCEPT !.session = NoUser]]
  /\ UNCHANGED <<products, profiles, orders, order_items, runs, issued, edits, last, provider, inserted>>

\* an insert into orders sent straight through the browser client, with a
\* row of the caller's choosing
ApiInsertOrder(uid) ==
  /\ Cardinality(orders) < MaxOrders
  /\ \E owner \in Shoppers, total \in ClientTotals :
       LET row == [id |-> NewOrderId, user_id |-> owner,
                   total_amount |-> total, status |-> "pending"]
       IN /\ OrdersInsertAllowed(uid, row)
          /\ orders' = orders \cup {row}
  /\ UNCHANGED <<products, profiles, order_items, runs, clients, issued, edits, last, provider, inserted>>

\* AdminProductForm.handleSubmit in edit mode: update products ... eq id
AdminUpdate(uid) ==
  /\ edits < MaxEdits
  /\ \E pid \in DOMAIN products, price \in Prices, stock \in Stocks :
       LET row == [price |-> price, stock |-> stock]
       IN /\ ProductsUpdateAllowed(uid, row)
          /\ row # products[pid]
          /\ products' = [products EXCEPT ![pid] = row]
  /\ edits' = edits + 1
  /\ UNCHANGED <<profiles, orders, order_items, runs, clients, issued, last, provider, inserted>>

\* carts the reducer can have built from the products as first stored:
\* distinct products, each quantity between 1 and the stock of its snapshot
Snapshot(pid) ==
  [id |-> pid, price |-> InitProducts[pid].price, stock |-> InitProducts[pid].stock]

CartEntries ==
  {e \in {[product |-> Snapshot(p), quantity |-> q] : p \in ProductIds, q \in 1 .. 2} :
     e.quantity <= e.product.stock}

InitCarts ==
  {s \in SeqsUpTo(CartEntries, MaxCart) :
     /\ Len(s) > 0
     /\ \A i, j \in 1 .. Len(s) : i < j => s[i].product.id = "p1" /\ s[j].product.id = "p2"}

Init ==
  /\ products = InitProducts
  /\ profiles = [i \in Identities |-> IF i = "adm" THEN "admin" ELSE "user"]
  /\ orders = {}
  /\ order_items = {}
  /\ runs = [s \in Slots |-> NoRun]
  /\ \E k \in [Shoppers -> InitCarts] :
       clients = [c \in Shoppers |->
                    [IdleClient EXCEPT !.session = c, !.cart = k[c]]]
  /\ issued = {}
  /\ edits = 0
  /\ last = NoCall
  /\ provider = NoProvider
  /\ inserted = {}

Next ==
  \/ \E c \in Shoppers : Submit(c)
  \/ \E c \in Shoppers : PostAuth(c)
  \/ \E c \in Shoppers : PostParse(c)
  \/ \E c \in Shoppers : PostItem(c)
  \/ \E c \in Shoppers : FetchReturn(c)
  \/ \E c \in Shoppers : FetchThrows(c)
  \/ \E c \in Shoppers : GetUser(c)
  \/ \E c \in Shoppers : InsertOrder(c)
  \/ \E c \in Shoppers : InsertItems(c)
  \/ \E c \in Shoppers : SignOut(c)
  \/ \E uid \in Identities : AdminUpdate(uid)

Spec == Init /\ [][Next]_vars

\* one shopper checking out while callers write order rows of their own
NextApi ==
  \/ Submit("u1")
  \/ PostAuth("u1")
  \/ PostParse("u1")
  \/ PostItem("u1")
  \/ FetchReturn("u1")
  \/ GetUser("u1")
  \/ InsertOrder("u1")
  \/ InsertItems("u1")
  \/ \E uid \in Shoppers : ApiInsertOrder(uid)

SpecApi == Init /\ [][NextApi]_vars

\* ------------------------------------ direct calls under the access rules
\* Every table is reachable through the backend's REST interface with the
\* caller's session (or none); the access rules decide each statement.
Callers == Identities \cup {NoUser}

\* stock values an admin sets: sold out, the initial stock, restocked
StockLevels == {0, 1, 3}

\* CHECK (role IN ('user', 'admin'))
Roles == {"user", "admin"}

\* CHECK (status IN ('pending','confirmed','shipped','delivered'))
Statuses == <<"pending", "confirmed", "shipped", "delivered">>

StatusSet == {Statuses[i] : i \in 1 .. Len(Statuses)}

\* the record of a call: statement, caller, argument and outcome
Call(op, uid, arg, ok) == [op |-> op, uid |-> uid, arg |-> arg, ok |-> ok]

\* "orders: owner update" and "orders: admin update all" (permissive policies
\* are OR-ed; a policy without WITH CHECK applies its USING to the new row),
\* and the CHECK constraints of public.orders
OrdersUpdateAllowed(uid, old, new) ==
  /\ uid # NoUser
  /\ old.user_id = uid \/ IsAdmin(uid)
  /\ new.user_id = uid \/ IsAdmin(uid)
  /\ new.total_amount >= 0
  /\ new.status \in StatusSet

\* "profiles: owner update" and the CHECK constraint on role
ProfilesUpdateAllowed(uid, id, role) ==
  /\ uid # NoUser
  /\ id = uid
  /\ role \in Roles

\* "products: admin insert" and the CHECK constraints of public.products
ProductsInsertAllowed(uid, row) ==
  /\ IsAdmin(uid)
  /\ row.price >= 0
  /\ row.stock >= 0

\* "products: admin delete"; order_items.product_id is NOT NULL, so the
\* ON DELETE SET NULL of a referenced product fails
ProductsDeleteAllowed(uid, pid) ==
  /\ IsAdmin(uid)
  /\ \A r \in order_items : r.product_id # pid

\* "products: public read": USING (true)
ProductsSelect(uid) == DOMAIN products

\* insert into order_items one row under an order id of the caller's choice
ApiInsertOrderItems(uid) ==
  /\ Cardinality(order_items) < MaxLines
  /\ \E order_id \in 1 .. MaxOrders :
       LET row == [order_id |-> order_id,
                   line |-> Cardinality({r \in order_items :
                                           r.order_id = order_id}) + 1,
                   product_id |-> "p1", quantity |-> 1, price |-> 1]
           ok == OrderItemsInsertAllowed(uid, {row})
       IN /\ order_items' = IF ok THEN order_items \cup {row} ELSE order_items
          /\ inserted' = IF ok THEN inserted \cup {<<uid, order_id>>}
                         ELSE inserted
          /\ last' = Call("order_items insert", uid, order_id, ok)
  /\ UNCHANGED <<products, profiles, orders, runs, clients, issued, edits, provider>>

\* update orders set status, user_id where id = ...
ApiUpdateOrder(uid) ==
  /\ \E old \in orders, status \in StatusSet, owner \in Shoppers :
       LET new == [old EXCEPT !.status = status, !.user_id = owner]
           ok == OrdersUpdateAllowed(uid, old, new)
       IN /\ orders' = IF ok THEN (orders \ {old}) \cup {new} ELSE orders
          /\ last' = Call("orders update", uid, "-", ok)
  /\ UNCHANGED <<products, profiles, order_items, runs, clients, issued, edits,
                 provider, inserted>>

\* update profiles set role = ... where id = ...
ApiUpdateProfile(uid) ==
  /\ \E id \in Identities, role \in Roles \cup {"owner"} :
       LET ok == ProfilesUpdateAllowed(uid, id, role)
       IN /\ profiles' = IF ok THEN [profiles EXCEPT ![id] = role] ELSE profiles
          /\ last' = Call("profiles update", uid, id, ok)
  /\ UNCHANGED <<products, orders, order_items, runs, clients, issued, edits,
                 provider, inserted>>

\* UPDATE public.profiles SET role = 'admin' WHERE id = '<user-uuid>', run by
\* hand in the SQL editor, outside the access rules
ManualPromote ==
  /\ \E id \in Identities :
       /\ profiles[id] = "user"
       /\ profiles' = [profiles EXCEPT ![id] = "admin"]
       /\ last' = Call("manual promote", "operator", id, TRUE)
  /\ UNCHANGED <<products, orders, order_items, runs, clients, issued, edits,
                 provider, inserted>>

\* insert into products
ApiInsertProduct(uid) ==
  /\ \E pid \in ProductIds \ DOMAIN products, price \in Prices \cup {-1} :
       LET row == [price |-> price, stock |-> 1]
           ok == ProductsInsertAllowed(uid, row)
       IN /\ products' = IF ok
                         THEN [p \in DOMAIN products \cup {pid} |->
                                 IF p = pid THEN row ELSE products[p]]
                         ELSE products
          /\ last' = Call("products insert", uid, pid, ok)
  /\ UNCHANGED <<profiles, orders, order_items, runs, clients, issued, edits,
                 provider, inserted>>

\* update products set price = ... where id = ...
ApiUpdateProduct(uid) ==
  /\ \E pid \in DOMAIN products, price \in Prices \cup {-1},
        stock \in StockLevels :
       LET row == [price |-> price, stock |-> stock]
           ok == ProductsUpdateAllowed(uid, row)
       IN /\ products' = IF ok THEN [products EXCEPT ![pid] = row] ELSE products
          /\ last' = Call("products update", uid, pid, ok)
  /\ UNCHANGED <<profiles, orders, order_items, runs, clients, issued, edits,
                 provider, inserted>>

\* delete from products where id = ...
ApiDeleteProduct(uid) ==
  /\ \E pid \in DOMAIN products :
       LET ok == ProductsDeleteAllowed(uid, pid)
       IN /\ products' = IF ok
                         THEN [p \in DOMAIN products \ {pid} |-> products[p]]
                         ELSE products
          /\ last' = Call("products delete", uid, pid, ok)
  /\ UNCHANGED <<profiles, orders, order_items, runs, clients, issued, edits,
                 provider, inserted>>

\* select id from products
ApiSelectProducts(uid) ==
  /\ last' = Call("products select", uid, ProductsSelect(uid), TRUE)
  /\ UNCHANGED <<products, profiles, orders, order_items, runs, clients, issued,
                 edits, provider, inserted>>

\* the backend as set up by the schema, the browsers idle with empty carts
InitRls ==
  /\ products = InitProducts
  /\ profiles = [i \in Identities |-> IF i = "adm" THEN "admin" ELSE "user"]
  /\ orders = {}
  /\ order_items = {}
  /\ runs = [s \in Slots |-> NoRun]
  /\ clients = [c \in Shoppers |-> [IdleClient EXCEPT !.session = c]]
  /\ issued = {}
  /\ edits = 0
  /\ last = NoCall
  /\ provider = NoProvider
  /\ inserted = {}

\* callers working on orders and line items
NextRls ==
  \/ \E uid \in Callers : ApiInsertOrder(uid)
  \/ \E uid \in Callers : ApiInsertOrderItems(uid)
  \/ \E uid \in Callers : ApiUpdateOrder(uid)

SpecRls == InitRls /\ [][NextRls]_vars

\* callers working on products and profiles
NextCatalog ==
  \/ \E uid \in Callers : ApiInsertProduct(uid)
  \/ \E uid \in Callers : ApiUpdateProduct(uid)
  \/ \E uid \in Callers : ApiDeleteProduct(uid)
  \/ \E uid \in Callers : ApiSelectProducts(uid)
  \/ \E uid \in Callers : ApiUpdateProfile(uid)
  \/ ManualPromote

SpecCatalog == InitRls /\ [][NextCatalog]_vars

\* ------------------------------------------------------------- middleware
\* Path names are sequences of characters, so that startsWith is a test on
\* the characters and not on a label.
Admin    == <<"/", "a", "d", "m", "i", "n">>
Cart     == <<"/", "c", "a", "r", "t">>
Checkout == <<"/", "c", "h", "e", "c", "k", "o", "u", "t">>
Orders   == <<"/", "o", "r", "d", "e", "r", "s">>
Login    == <<"/", "a", "u", "t", "h", "/", "l", "o", "g", "i", "n">>
Signup   == <<"/", "a", "u", "t", "h", "/", "s", "i", "g", "n", "u", "p">>
Home     == <<"/">>

\* const AUTH_REQUIRED = ['/cart', '/checkout', '/orders']
AUTH_REQUIRED == {Cart, Checkout, Orders}

\* const AUTH_EXCLUDED = ['/auth/login', '/auth/signup']
AUTH_EXCLUDED == {Login, Signup}

\* String.prototype.startsWith
StartsWith(str, prefix) ==
  Len(str) >= Len(prefix) /\ SubSeq(str, 1, Len(prefix)) = prefix

\* the path names requested: guarded pages, pages below them, names that
\* only share some characters with '/admin', and public pages
PathNames ==
  {Admin, Admin \o <<"/", "p">>, Admin \o <<"i", "s", "t">>,
   <<"/", "a", "d", "m">>, <<"/", "A", "d", "m", "i", "n">>,
   Cart, Checkout, Orders \o <<"/", "1">>, Login, Signup, Home,
   <<"/", "p">>}

\* the result of .from('profiles').select('role').eq('id', user.id).single():
\* the row, or null when the read failed or found no row
NoProfile == [found |-> FALSE]

ProfileOf(uid, answered) ==
  IF answered /\ uid \in DOMAIN profiles
  THEN [found |-> TRUE, role |-> profiles[uid]]
  ELSE NoProfile

\* NextResponse.next() and NextResponse.redirect(url)
PassOn == [kind |-> "next"]

Redirect(to, next) == [kind |-> "redirect", to |-> to, next |-> next]

\* the guard letting every signed-in caller into the admin panel
middlewareNoRoleTest(pathname, user, profile) ==
  IF (\E q \in AUTH_REQUIRED : StartsWith(pathname, q)) /\ user = NoUser
  THEN Redirect(Login, pathname)
  ELSE IF StartsWith(pathname, Admin) /\ user = NoUser
  THEN Redirect(Login, <<>>)
  ELSE IF pathname \in AUTH_EXCLUDED /\ user # NoUser
  THEN Redirect(Home, <<>>)
  ELSE PassOn

\* middleware(request), given the user of the session and the profile row
\* the role query returns
middleware(pathname, user, profile) ==
  IF (\E q \in AUTH_REQUIRED : StartsWith(pathname, q)) /\ user = NoUser
  THEN Redirect(Login, pathname)
  ELSE IF StartsWith(pathname, Admin) /\ user = NoUser
  THEN Redirect(Login, <<>>)
  ELSE IF /\ StartsWith(pathname, Admin)
          /\ ~(profile.found /\ profile.role = "admin")
  THEN Redirect(Home, <<>>)
  ELSE IF pathname \in AUTH_EXCLUDED /\ user # NoUser
  THEN Redirect(Home, <<>>)
  ELSE PassOn

\* a page request of a caller goes through the middleware
PageRequest(uid) ==
  /\ \E pathname \in PathNames, answered \in BOOLEAN :
       LET profile == ProfileOf(uid, answered)
           res == middleware(pathname, uid, profile)
       IN last' = [op |-> "page", uid |-> uid, arg |-> pathname,
                   ok |-> res = PassOn, profile |-> profile, res |-> res]
  /\ UNCHANGED <<products, profiles, orders, order_items, runs, clients, issued,
                 edits, provider, inserted>>

\* page requests while roles change
NextPages ==
  \/ \E uid \in Callers : PageRequest(uid)
  \/ \E uid \in Callers : ApiUpdateProfile(uid)
  \/ ManualPromote

SpecPages == InitRls /\ [][NextPages]_vars

\* ------------------------------------------------------------------- cart
\* The CartProvider of u1's browser: the reducer state is clients.cart, the
\* record 'provider' holds localStorage[STORAGE_KEY], the effects of the
\* current commit still to run, and the actions dispatched but not rendered.
Browser == "u1"

\* the product object a page passes to addItem: the row as the page read it
ProductRow(pid) ==
  [id |-> pid, price |-> products[pid].price, stock |-> products[pid].stock]

Min(a, b) == IF a <= b THEN a ELSE b

\* state.items.find((i) => i.product.id === id)
Exists(items, id) == \E i \in DOMAIN items : items[i].product.id = id

\* state.items.filter((i) => i.product.id !== id)
Without(items, id) == SelectSeq(items, LAMBDA i : i.product.id # id)

\* reducer(state, action), on state.items
reducer(items, action) ==
  CASE action.type = "ADD" ->
         IF Exists(items, action.product.id)
         THEN [i \in DOMAIN items |->
                 IF items[i].product.id = action.product.id
                 THEN [items[i] EXCEPT !.quantity =
                         Min(@ + action.quantity, action.product.stock)]
                 ELSE items[i]]
         ELSE Append(items, [product |-> action.product,
                             quantity |-> Min(action.quantity,
                                              action.product.stock)])
    [] action.type = "REMOVE" -> Without(items, action.productId)
    [] action.type = "UPDATE_QTY" ->
         IF action.quantity <= 0
         THEN Without(items, action.productId)
         ELSE [i \in DOMAIN items |->
                 IF items[i].product.id = action.productId
                 THEN [items[i] EXCEPT !.quantity =
                         Min(action.quantity, items[i].product.stock)]
                 ELSE items[i]]
    [] action.type = "CLEAR" -> <<>>
    [] action.type = "HYDRATE" -> action.items
    [] OTHER -> items

\* JSON.stringify of a cart, and the other values the storage key can hold
Stringify(items) == [text |-> "json", value |-> items]

NoEntry == [text |-> "null"]      \* getItem returns null: nothing stored

EmptyText == [text |-> "empty"]   \* the empty string

Corrupt == [text |-> "corrupt"]   \* text JSON.parse throws on

\* if (raw): null and the empty string are falsy
Truthy(raw) == raw.text \notin {"null", "empty"}

\* JSON.parse
Parseable(raw) == raw.text = "json"

Parse(raw) == raw.value

\* carts a stored snapshot can hold
StoredCarts == SeqsUpTo(CartEntries, MaxCart)

StoredValues ==
  {Stringify(k) : k \in StoredCarts} \cup {NoEntry, EmptyText, Corrupt}

\* the provider after mounting on an empty storage: "[]" was persisted
FreshProvider ==
  [phase |-> "mounted", stored |-> NoEntry, storage |-> Stringify(<<>>),
   todo |-> <<>>, queue |-> <<>>]

\* no effect is pending and no dispatched action waits for a render
Settled ==
  provider.phase = "mounted" /\ provider.todo = <<>> /\ provider.queue = <<>>

\* the persist effect after a dispatch: state.items changed, setItem runs
Persisted(items) ==
  IF provider.phase = "mounted"
  THEN [provider EXCEPT !.storage = Stringify(items)]
  ELSE provider

\* dispatch(action) from the page, the render, and the persist effect
Dispatch(c, action) ==
  /\ c = Browser
  /\ Settled
  /\ LET items == reducer(clients[c].cart, action)
     IN /\ clients' = [clients EXCEPT ![c].cart = items]
        /\ provider' = Persisted(items)
  /\ UNCHANGED <<products, profiles, orders, order_items, runs, issued, edits,
                 last, inserted>>

\* quantities the callers of addItem pass: the default of 1, a larger one,
\* zero and a negative one
AddQuantities == {-1, 0, 1, 5}

\* quantities of the cart page: the minus button at 1, and typed values
SetQuantities == {0, 2, 5}

\* addItem(product, qty)
AddItem(c) ==
  \E pid \in DOMAIN products, qty \in AddQuantities :
    /\ Dispatch(c, [type |-> "ADD", product |-> ProductRow(pid), quantity |-> qty])
    /\ \A i \in DOMAIN clients'[c].cart :
         clients'[c].cart[i].quantity >= 0 - MaxBelow

\* removeItem(productId)
RemoveItem(c) ==
  \E pid \in ProductIds : Dispatch(c, [type |-> "REMOVE", productId |-> pid])

\* updateQuantity(productId, qty)
UpdateQuantity(c) ==
  \E pid \in ProductIds, qty \in SetQuantities :
    Dispatch(c, [type |-> "UPDATE_QTY", productId |-> pid, quantity |-> qty])

\* clearCart()
ClearCart(c) == Dispatch(c, [type |-> "CLEAR"])

\* the first render of CartProvider: useReducer(reducer, { items: [] }) and
\* both effects scheduled; under StrictMode the runtime runs the mount
\* effects, their cleanups, and the mount effects again
Mount ==
  /\ provider.phase = "off"
  /\ \E raw \in (IF "storage" \in DOMAIN provider
                 THEN {provider.storage} ELSE StoredValues),
        strict \in BOOLEAN :
       provider' = [phase |-> "mounted", stored |-> raw, storage |-> raw,
                    todo |-> IF strict
                             THEN <<"hydrate", "persist", "hydrate", "persist">>
                             ELSE <<"hydrate", "persist">>,
                    queue |-> <<>>]
  /\ clients' = [clients EXCEPT ![Browser].cart = <<>>]
  /\ UNCHANGED <<products, profiles, orders, order_items, runs, issued, edits,
                 last, inserted>>

\* the next effect of the commit runs: the hydrate effect reads the storage
\* and dispatches HYDRATE; the persist effect writes the rendered state.items
RunEffect ==
  /\ provider.phase = "mounted"
  /\ provider.todo # <<>>
  /\ LET raw == provider.storage
         rest == Tail(provider.todo)
     IN provider' =
          IF Head(provider.todo) = "hydrate"
          THEN IF Truthy(raw) /\ Parseable(raw)
               THEN [provider EXCEPT
                       !.todo = rest,
                       !.queue = Append(@, [type |-> "HYDRATE",
                                            items |-> Parse(raw)])]
               ELSE [provider EXCEPT !.todo = rest]
          ELSE [provider EXCEPT
                  !.todo = rest,
                  !.storage = Stringify(clients[Browser].cart)]
  /\ UNCHANGED <<products, profiles, orders, order_items, runs, clients, issued,
                 edits, last, inserted>>

\* the state after applying the queued actions in order
RECURSIVE Reduced(_, _)
Reduced(items, queue) ==
  IF queue = <<>> THEN items
  ELSE Reduced(reducer(items, Head(queue)), Tail(queue))

\* the render after the effects: the queued actions are applied, and
\* state.items being a new array, the persist effect is scheduled
Render ==
  /\ provider.phase = "mounted"
  /\ provider.todo = <<>>
  /\ provider.queue # <<>>
  /\ clients' = [clients EXCEPT
       ![Browser].cart = Reduced(clients[Browser].cart, provider.queue)]
  /\ provider' = [provider EXCEPT !.queue = <<>>, !.todo = <<"persist">>]
  /\ UNCHANGED <<products, profiles, orders, order_items, runs, issued, edits,
                 last, inserted>>

\* the page is reloaded: the provider is gone, the storage stays
Reload ==
  /\ Settled
  /\ provider' = [phase |-> "off", storage |-> provider.storage]
  /\ clients' = [clients EXCEPT ![Browser].cart = <<>>]
  /\ UNCHANGED <<products, profiles, orders, order_items, runs, issued, edits,
                 last, inserted>>

\* a shopper editing the cart while an admin changes stock
InitCart ==
  /\ products = InitProducts
  /\ profiles = [i \in Identities |-> IF i = "adm" THEN "admin" ELSE "user"]
  /\ orders = {}
  /\ order_items = {}
  /\ runs = [s \in Slots |-> NoRun]
  /\ clients = [c \in Shoppers |-> [IdleClient EXCEPT !.session = c]]
  /\ issued = {}
  /\ edits = 0
  /\ last = NoCall
  /\ provider = FreshProvider
  /\ inserted = {}

NextCart ==
  \/ AddItem(Browser)
  \/ RemoveItem(Browser)
  \/ UpdateQuantity(Browser)
  \/ ClearCart(Browser)
  \/ ApiUpdateProduct("adm")

SpecCart == InitCart /\ [][NextCart]_vars

\* the provider mounting on whatever the storage holds
NextProvider == Mount \/ RunEffect \/ Render \/ Reload

SpecProvider == InitRls /\ [][NextProvider]_vars


\* ===================================================== claims on the POST
\* The request made by hand, and what its list asks for.  These are stated
\* from the request and the tables, independently of the handler's steps.
R      == runs[Raw]
Done   == R.pc = "done"
Authd  == R.user # NoUser
IsList == R.body.kind = "json" /\ R.body.array /\ Len(R.body.items) > 0
L      == R.body.items
Pos    == 1 .. Len(L)

GoodQty == {Num(n) : n \in 1 .. 3}

IsEntry(item)    == item # NullItem
BadEntry(item)   == IsEntry(item) /\ (item.product_id = "" \/ item.quantity \notin GoodQty)
GoodEntry(item)  == IsEntry(item) /\ ~BadEntry(item)
Stored(item)     == item.product_id \in DOMAIN products
Absent(item)     == GoodEntry(item) /\ ~Stored(item)
Qty(item)        == item.quantity.h \div 2
Exceeds(item)    == GoodEntry(item) /\ Stored(item)
                      /\ Qty(item) > products[item.product_id].stock
Passes(item)     == GoodEntry(item) /\ Stored(item) /\ ~Exceeds(item)

\* the lookup of the entry at position i was not answered by the backend
Unanswered(i) == R.faultAt = i

\* position of the first entry at which the request fails, 0 when none does
FailsAt(i)   == ~Passes(L[i]) \/ Unanswered(i)
FirstFailing ==
  IF \E i \in Pos : FailsAt(i)
  THEN CHOOSE i \in Pos : FailsAt(i) /\ \A j \in 1 .. i - 1 : ~FailsAt(j)
  ELSE 0

\* every entry is an object and the backend answered every lookup
Answered == R.faultAt = 0 /\ \A i \in Pos : IsEntry(L[i])

\* position of the first entry of the list that satisfies P
First(P(_)) ==
  CHOOSE i \in Pos : P(L[i]) /\ \A j \in 1 .. i - 1 : ~P(L[j])

RECURSIVE SumCents(_, _)
SumCents(items, n) ==
  IF n = 0 THEN 0
  ELSE SumCents(items, n - 1) + products[items[n].product_id].price * Qty(items[n])

IdsBefore(k) == [i \in 1 .. k - 1 |-> L[i].product_id]

HasTotal == "serverTotal" \in DOMAIN R.resp.body

\* the answer is the not-found outcome naming pid
NotFoundNaming(pid) ==
  /\ R.resp.status = 404
  /\ R.resp.body = [error |-> [msg |-> "Product not found: ", id |-> pid]]

\* the answer is the stock conflict of the entry item
ConflictNaming(item) ==
  /\ R.resp.status = 409
  /\ R.resp.body = [error |-> [msg |-> "Insufficient stock for",
                               name |-> NameOf(item.product_id),
                               available |-> products[item.product_id].stock,
                               requested |-> item.quantity]]

\* C1: an authenticated request whose list is non-empty, well-formed, names
\* only stored products and asks for no more than the stock of each, and
\* whose lookups were all answered, is answered valid = true with
\* serverTotal = sum of stored price x quantity (cents); a price field sent
\* by the client changes nothing.
C1_ValidTotal ==
  (Done /\ Authd /\ IsList /\ R.faultAt = 0 /\ \A i \in Pos : Passes(L[i]))
    => R.resp = Resp200(SumCents(L, Len(L)))

C1_Witness ==
  /\ Done /\ Authd /\ IsList /\ Len(L) = 2
  /\ \A i \in Pos : Passes(L[i])
  /\ \E i \in Pos : "price" \in DOMAIN L[i]
  /\ L[1].product_id # L[2].product_id
  /\ R.resp.status = 200
  /\ R.resp.body.serverTotal = products["p1"].price + products["p2"].price * Qty(L[2])
  /\ Qty(L[2]) = 2

\* C2: a request without an authenticated user ends with 401
\* 'Authentication required.'; no entry is inspected and no product lookup
\* is issued, whatever the body holds.
C2_Unauthenticated ==
  ~Authd => /\ R.inspected = 0
            /\ R.lookups = <<>>
            /\ R.pc # "parse" /\ R.pc # "loop"
            /\ Done => R.resp = Resp401

C2_Witness ==
  Done /\ ~Authd /\ IsList /\ Len(L) = 2 /\ (\A i \in Pos : Passes(L[i]))
    /\ R.resp.status = 401

\* C3 as stated: whenever some entry of an authenticated request is
\* malformed, the answer is 400 and no lookup was issued for any entry
\* (taken with every entry an object and every lookup answered).
C3_Original ==
  (Done /\ Authd /\ IsList /\ Answered /\ \E i \in Pos : BadEntry(L[i]))
    => (R.resp.status = 400 /\ R.lookups = <<>>)

\* C3 amended: when the first entry at which the request fails is a
\* malformed one, at position k, the answer is 400 and lookups were issued
\* for exactly the k - 1 entries before it: none for the malformed entry,
\* none for a later one, and none at all when k = 1.
C3_MalformedBeforeItsLookup ==
  (Done /\ Authd /\ IsList /\ FirstFailing > 0 /\ BadEntry(L[FirstFailing]))
    => /\ R.resp.status = 400
       /\ R.lookups = IdsBefore(FirstFailing)

C3_Witness ==
  /\ Done /\ Authd /\ IsList /\ Len(L) = 2
  /\ FirstFailing = 2 /\ BadEntry(L[2])
  /\ R.resp.status = 400
  /\ R.lookups = <<L[1].product_id>>

\* C4: an authenticated request is never answered valid = true when its list
\* holds an entry with an empty product id or a quantity that is zero,
\* negative or not an integer; when such an entry is the first failing one
\* the answer is 400 'Invalid item in cart.'; an empty or non-array list is
\* answered 400 too.
C4_MalformedNeverValid ==
  Authd =>
    /\ R.resp.status = 200 => (IsList /\ \A i \in Pos : ~BadEntry(L[i]))
    /\ (Done /\ IsList /\ FirstFailing > 0 /\ BadEntry(L[FirstFailing]))
         => R.resp = RespInvalid
    /\ (Done /\ R.body.kind = "json" /\ ~IsList) => R.resp.status = 400

C4_Witness ==
  /\ Done /\ Authd /\ IsList /\ Len(L) = 2
  /\ Passes(L[1])
  /\ L[2] \in {Item("p1", Half(3)), Item("p1", Num(0)), Item("p1", Num(-1))}
  /\ R.resp = RespInvalid

\* C5 as stated: a list with an entry naming a product id that is not
\* stored is answered 404 naming that id (the first such id), wherever the
\* entry sits in the list (taken with every entry an object and every
\* lookup answered).
C5_Original ==
  (Done /\ Authd /\ IsList /\ Answered /\ \E i \in Pos : Absent(L[i]))
    => NotFoundNaming(L[First(Absent)].product_id)

\* C5 amended: a list holding an entry that names a product id that is not
\* stored is never answered valid and gets no total; the answer is 404
\* naming that id when that entry is the first one at which the request
\* fails, at whatever position that is.
C5_NotFound ==
  (Done /\ Authd /\ IsList) =>
    /\ (\E i \in Pos : Absent(L[i])) => (R.resp.status # 200 /\ ~HasTotal)
    /\ (FirstFailing > 0 /\ Absent(L[FirstFailing]))
         => NotFoundNaming(L[FirstFailing].product_id)

C5_Witness ==
  /\ Done /\ Authd /\ IsList /\ Len(L) = 2
  /\ FirstFailing = 2 /\ Absent(L[2]) /\ R.faultAt = 0
  /\ NotFoundNaming(GhostId) /\ ~HasTotal

\* C6 as stated: a list with an entry asking for more than the product's
\* stock is answered 409 naming the product, its stock and the quantity
\* asked, for the first such entry in input order (taken with every entry
\* an object and every lookup answered).
C6_Original ==
  (Done /\ Authd /\ IsList /\ Answered /\ \E i \in Pos : Exceeds(L[i]))
    => ConflictNaming(L[First(Exceeds)])

\* C6 amended: when the first entry at which the request fails is one whose
\* lookup was answered and whose quantity exceeds the stock read, at
\* position k, the answer is 409 naming that product, its stock and the
\* quantity asked; exactly k entries were looked up, the running total holds
\* only the k - 1 entries before it, and no total is returned.
C6_FirstConflictStops ==
  (Done /\ Authd /\ IsList /\ FirstFailing > 0
      /\ Exceeds(L[FirstFailing]) /\ ~Unanswered(FirstFailing))
    => LET k == FirstFailing IN
       /\ ConflictNaming(L[k])
       /\ R.lookups = IdsBefore(k + 1)
       /\ R.inspected = k
       /\ R.serverTotal = SumCents(L, k - 1)
       /\ ~HasTotal

C6_Witness ==
  /\ Done /\ Authd /\ IsList /\ Len(L) = 2
  /\ FirstFailing = 1 /\ Exceeds(L[1]) /\ Exceeds(L[2])
  /\ L[1].product_id # L[2].product_id
  /\ R.resp.status = 409
  /\ R.resp.body.error.name = NameOf(L[1].product_id)
  /\ Len(R.lookups) = 1

\* C7: the status of every answer corresponds to its cause: 200 only on full
\* success, 400 only for malformed input, 401 only without a session, 404
\* only when the product named does not exist, 409 only for a stock
\* conflict, and an unparseable body or a lookup the backend failed to
\* answer gives 500 'Internal server error.'.
C7_StatusMatchesCause ==
  Done =>
    /\ R.resp.status \in {200, 400, 401, 404, 409, 500}
    /\ R.resp.status = 200
         => (Authd /\ IsList /\ \A i \in Pos : Passes(L[i]))
    /\ R.resp.status = 400
         => (Authd /\ R.body.kind = "json"
               /\ (~IsList \/ \E i \in Pos : BadEntry(L[i])))
    /\ R.resp.status = 401 <=> ~Authd
    /\ R.resp.status = 404
         => (Authd /\ IsList /\ R.resp.body.error.id \notin DOMAIN products)
    /\ R.resp.status = 409
         => (Authd /\ IsList /\ \E i \in Pos : Exceeds(L[i]))
    /\ (Authd /\ (R.body.kind = "unparseable" \/ R.faultAt > 0))
         => R.resp = Resp500


\* ============================================== claims on the checkout flow
RECURSIVE LineSum(_)
LineSum(rows) ==
  IF rows = {} THEN 0
  ELSE LET r == CHOOSE x \in rows : TRUE
       IN r.price * r.quantity + LineSum(rows \ {r})

LinesOf(items, order_id) == {r \in items : r.order_id = order_id}
OrderRow(order_id) == CHOOSE o \in orders : o.id = order_id

\* the step in which the flow of c finishes creating its order
Creates(c) == clients[c].pc = "insertItems" /\ clients'[c].pc = "success"

\* C8: when the checkout flow has created an order, the order's total_amount
\* equals the sum over its line items of line-item price x quantity, also
\* when a stored price changed after the product was put in the cart.
C8_TotalEqualsLineSum ==
  [][\A c \in Shoppers :
       Creates(c) =>
         OrderRow(clients'[c].order).total_amount
           = LineSum(LinesOf(order_items', clients'[c].order))]_vars

\* C9: every order row the backend accepted carries a total_amount that the
\* validation endpoint returned as serverTotal to the row's owner.
C9_TotalsAreServerTotals ==
  \A o \in orders : <<o.user_id, o.total_amount>> \in issued

\* C10: no step of a validation, of a checkout flow or of an order write
\* changes a product row: between validation and the order write stock is
\* neither decremented nor locked, so two flows that were each validated
\* against the same stock both commit (C10_Witness).
C10_CheckoutLeavesStock ==
  [][(clients' # clients \/ runs' # runs \/ orders' # orders
        \/ order_items' # order_items) => products' = products]_vars

Committed(pid) ==
  LET rows == {r \in order_items : r.product_id = pid} IN
  IF rows = {} THEN 0
  ELSE LineSum({[price |-> 1, quantity |-> r.quantity, order_id |-> r.order_id,
                 line |-> r.line] : r \in rows})

C10_Witness ==
  /\ \A c \in Shoppers : clients[c].pc = "success"
  /\ clients["u1"].order # clients["u2"].order
  /\ \A c \in Shoppers :
       \E r \in LinesOf(order_items, clients[c].order) :
         r.product_id = "p1" /\ r.quantity <= products["p1"].stock
  /\ edits = 0
  /\ Committed("p1") > products["p1"].stock


\* the flow of c receives the answer of the validation endpoint
Answers(c) == clients[c].pc = "fetch" /\ clients'[c].pc # "fetch"

\* C11: the order writer acts only after validation succeeded.  A flow goes
\* on past the fetch only with a 200 answer to a request that carried its
\* own cart items; an order row is inserted only by a flow holding such an
\* answer, owned by the calling identity, 'pending', with the validated
\* total; line items are inserted only by that flow, exactly one row per
\* cart entry, all referencing that order; a flow whose validation failed
\* writes no order and no line item.
C11_WriteOnlyAfterValidation ==
  [][/\ \A c \in Shoppers :
          (Answers(c) /\ clients'[c].pc # "idle")
            => /\ runs[c].pc = "done" /\ runs[c].resp.status = 200
               /\ runs[c].body = Items(Payload(clients[c].items))
               /\ clients'[c].pc = "getUser"
               /\ clients'[c].items = clients[c].cart
               /\ clients'[c].res.body.serverTotal = runs[c].resp.body.serverTotal
     /\ \A c \in Shoppers :
          (Answers(c) /\ clients'[c].pc = "idle")
            => (orders' = orders /\ order_items' = order_items)
     /\ orders' # orders =>
          \E c \in Shoppers :
            /\ clients[c].pc = "insertOrder" /\ clients[c].res.status = 200
            /\ clients[c].session # NoUser
            /\ \E row \in orders' :
                 /\ orders' = orders \cup {row} /\ row \notin orders
                 /\ row.user_id = clients[c].session
                 /\ row.status = "pending"
                 /\ row.total_amount = clients[c].res.body.serverTotal
                 /\ clients'[c].order = row.id
            /\ order_items' = order_items
     /\ order_items' # order_items =>
          \E c \in Shoppers :
            LET new == order_items' \ order_items
                its == clients[c].items
            IN /\ clients[c].pc = "insertItems" /\ clients[c].res.status = 200
               /\ its = clients[c].cart
               /\ order_items \subseteq order_items'
               /\ Cardinality(new) = Len(its)
               /\ \A i \in 1 .. Len(its) :
                    \E r \in new : /\ r.line = i
                                   /\ r.order_id = clients[c].order
                                   /\ r.product_id = its[i].product.id
                                   /\ r.quantity = its[i].quantity
               /\ \E o \in orders :
                    o.id = clients[c].order /\ o.user_id = clients[c].session
               /\ LinesOf(order_items, clients[c].order) = {}
               /\ orders' = orders
    ]_vars

C11_Witness ==
  \E c \in Shoppers :
    /\ clients[c].pc = "success"
    /\ \E o \in orders : /\ o.id = clients[c].order /\ o.user_id = c
                         /\ o.status = "pending"
                         /\ <<c, o.total_amount>> \in issued
    /\ Cardinality(LinesOf(order_items, clients[c].order)) = 2

\* the flow of c stops because its order_items insert returned an error
ItemsFail(c) == clients[c].pc = "insertItems" /\ clients'[c].pc = "idle"

\* C12: when the line-item insert fails after the order row was created,
\* the flow ends with the order row still stored and without line items: no
\* delete and no retry follows, so an order with zero line items is reached.
C12_NoRollback ==
  [][\A c \in Shoppers :
       ItemsFail(c) =>
         /\ orders' = orders /\ order_items' = order_items
         /\ \E o \in orders' : o.id = clients[c].order
         /\ LinesOf(order_items', clients[c].order) = {}
         /\ clients'[c].error = "Failed to save order items."]_vars

C12_Witness ==
  \E c \in Shoppers :
    /\ clients[c].pc = "idle"
    /\ clients[c].error = "Failed to save order items."
    /\ clients[c].submits = MaxSubmits
    /\ \E o \in orders : o.user_id = c /\ LinesOf(order_items, o.id) = {}


\* ---------------------------------------------- claims on the access rules
\* the order row with this id is stored and belongs to uid
OwnsOrder(uid, order_id) ==
  \E o \in orders : o.id = order_id /\ o.user_id = uid

\* a line-item insert was sent in this step
SentItems == last' # last /\ last'.op = "order_items insert"

\* C13 as stated: in every reachable state the parent order of each line
\* item belongs to the identity that inserted the line item.
C13_Original == \A w \in inserted : OwnsOrder(w[1], w[2])

\* C13: a line item is inserted only under an order that belongs to the
\* inserting identity at the time of the insert; an insert whose order_id
\* names an order of another identity, or no order, is rejected and leaves
\* the line items unchanged.
C13_InsertOnlyUnderOwnOrder ==
  [][/\ \A w \in inserted' \ inserted : OwnsOrder(w[1], w[2])
     /\ order_items' # order_items =>
          /\ last'.op = "order_items insert" /\ last'.ok
          /\ order_items \subseteq order_items'
          /\ \A r \in order_items' \ order_items :
               r.order_id = last'.arg /\ OwnsOrder(last'.uid, r.order_id)
     /\ (SentItems /\ ~OwnsOrder(last'.uid, last'.arg)) =>
          (~last'.ok /\ order_items' = order_items /\ inserted' = inserted)
    ]_vars

C13_Witness ==
  /\ last.op = "order_items insert" /\ ~last.ok
  /\ last.uid \in Shoppers
  /\ \E o \in orders : o.id = last.arg /\ o.user_id \in Shoppers \ {last.uid}
  /\ order_items = {}

\* the statements that write public.products
ProductWrites == {"products insert", "products update", "products delete"}

\* C14: the product collection changes only by a write of a caller whose
\* profile has role 'admin' when the write is made; a write sent without a
\* session or by a caller with role 'user' is rejected and leaves the
\* collection unchanged; a read returns every product to every caller.
C14_ProductsWrittenByAdminOnly ==
  [][/\ products' # products =>
          /\ last'.op \in ProductWrites /\ last'.ok
          /\ last'.uid \in DOMAIN profiles
          /\ profiles[last'.uid] = "admin"
     /\ (/\ last' # last
         /\ last'.op \in ProductWrites
         /\ (last'.uid = NoUser \/ profiles[last'.uid] = "user"))
          => (~last'.ok /\ products' = products)
     /\ (last' # last /\ last'.op = "products select")
          => (last'.ok /\ last'.arg = DOMAIN products)
    ]_vars

C14_Witness ==
  /\ products # InitProducts
  /\ last.op \in ProductWrites /\ ~last.ok
  /\ last.uid \in Shoppers /\ profiles[last.uid] = "user"

\* the stage of a status on the way pending -> ... -> delivered
Rank(status) == CHOOSE i \in 1 .. Len(Statuses) : Statuses[i] = status

\* C15: over the order updates permitted to the owner or to an admin, the
\* status of an order stays or moves to the next stage; it never goes back
\* and never skips a stage.
C15_StatusOnlyForward ==
  [][\A o \in orders, n \in orders' :
       o.id = n.id =>
         Rank(n.status) \in {Rank(o.status), Rank(o.status) + 1}]_vars

\* C19: a step in which a profile's role changes is the manual promotion or
\* is not the call of a caller with role 'user'.
C19_UsersNeverChangeRoles ==
  [][(profiles' # profiles /\ last'.op # "manual promote")
       => profiles[last'.uid] # "user"]_vars


\* ------------------------------------------------ claims on the middleware
\* the path name begins with the six characters of '/admin'
UnderAdmin(path) ==
  Len(path) >= 6 /\ \A i \in 1 .. 6 : path[i] = Admin[i]

\* the caller of the last page request has a session and role 'admin'
AdminCaller ==
  /\ last.uid \in DOMAIN profiles
  /\ profiles[last.uid] = "admin"
  /\ last.profile.found

\* C18: a page request for a path starting with /admin passes the
\* middleware only when the caller is authenticated and the profile read
\* gives role 'admin'; without a session it is redirected to /auth/login;
\* with a session but another role, or a profile that cannot be read, it is
\* redirected to '/'.
C18_AdminPagesGuarded ==
  (last.op = "page" /\ UnderAdmin(last.arg)) =>
    /\ last.res.kind = "next" <=> AdminCaller
    /\ last.uid = NoUser =>
         (last.res.kind = "redirect" /\ last.res.to = Login)
    /\ (last.uid # NoUser /\ ~AdminCaller) =>
         (last.res.kind = "redirect" /\ last.res.to = Home)

C18_Witness ==
  /\ last.op = "page" /\ UnderAdmin(last.arg) /\ Len(last.arg) > 6
  /\ last.uid \in Shoppers
  /\ last.profile.found /\ last.profile.role = "user"
  /\ last.res.kind = "redirect"


\* ------------------------------------------------------ claims on the cart
\* C16: after any sequence of add, remove, set-quantity and clear from the
\* empty cart, the quantity of every cart entry is at most the stock of the
\* product snapshot stored in that entry.
C16_QuantityWithinSnapshotStock ==
  \A i \in DOMAIN clients[Browser].cart :
    clients[Browser].cart[i].quantity <= clients[Browser].cart[i].product.stock

\* C17: when the storage holds a parseable cart snapshot S at mount, the
\* storage never holds anything but S while the mount effects run, and once
\* they have all run the cart equals S.
C17_RoundTrip ==
  (provider.phase = "mounted" /\ Parseable(provider.stored)) =>
    /\ provider.storage = provider.stored
    /\ Settled => clients[Browser].cart = Parse(provider.stored)


\* ------------------------------------------- claims on repeated product ids
\* the quantity the list requests of pid over its first n entries
RECURSIVE Requested(_, _)
Requested(pid, n) ==
  IF n = 0 THEN 0
  ELSE Requested(pid, n - 1) + (IF L[n].product_id = pid THEN Qty(L[n]) ELSE 0)

\* C20: when validation answers valid = true, for every product the total
\* quantity requested by all items of the list that name it is at most the
\* stock of the product, also when several items name the same product.
C20_ValidWithinStockPerProduct ==
  (Done /\ R.resp.status = 200) =>
    \A pid \in DOMAIN products : Requested(pid, Len(L)) <= products[pid].stock


\* C21: after any sequence of add, remove, set-quantity and clear from the
\* empty cart every cart entry has quantity at least 1, also after adding a
\* product whose stock is 0 and after adding a quantity of 0 or less.
C21_QuantityAtLeastOne ==
  \A i \in DOMAIN clients[Browser].cart : clients[Browser].cart[i].quantity >= 1


\* ------------------------------------------- claims on the cart at checkout
\* the step ends handleSubmit of c on a failure path
FailureReturn(c) ==
  /\ clients'[c].pc = "idle"
  /\ \/ clients[c].pc \in {"fetch", "getUser", "insertOrder", "insertItems"}
     \/ clients[c].pc = "idle" /\ clients'[c].submits # clients[c].submits

\* C22: the cart of a checkout changes only in the step in which the line
\* items are inserted, the order row being stored and every cart entry having
\* its line item, and it is then emptied; a step that ends handleSubmit on a
\* failure path leaves the cart as it was, sets an error message and leaves
\* loading false.
C22_CartClearedOnlyOnSuccess ==
  [][\A c \in Shoppers :
       /\ clients'[c].cart # clients[c].cart =>
            /\ clients[c].pc = "insertItems" /\ clients'[c].pc = "success"
            /\ clients'[c].cart = <<>>
            /\ \E o \in orders' : o.id = clients[c].order
            /\ \A i \in DOMAIN clients[c].cart :
                 \E r \in order_items' \ order_items :
                   /\ r.order_id = clients[c].order
                   /\ r.line = i
                   /\ r.product_id = clients[c].cart[i].product.id
       /\ FailureReturn(c) =>
            /\ clients'[c].cart = clients[c].cart
            /\ clients'[c].error # "none"
            /\ clients'[c].loading = FALSE
    ]_vars

C22_Witness ==
  \E c, d \in Shoppers :
    /\ clients[c].pc = "idle" /\ clients[c].cart # <<>>
    /\ clients[c].error = "Failed to create order. Please try again."
    /\ ~clients[c].loading
    /\ clients[d].pc = "success" /\ clients[d].cart = <<>>


====
